---- MODULE Spec2Model ----
(***************************************************************************)
(* Model of telegram_photo_text_scrapping.py: fetch the image messages of  *)
(* a Telegram group, run OCR on each image, and append the resulting rows  *)
(* to an XLSX dataset.                                                     *)
(*                                                                         *)
(* Spec       one run of main() under asyncio.run(), from client.start()   *)
(*            to process exit, against a dataset left by earlier runs.     *)
(* SpecMerge  append_to_excel() applied repeatedly to one path, starting   *)
(*            from an absent dataset.                                      *)
(***************************************************************************)
EXTENDS Integers, Sequences, FiniteSets, TLC

(* ------------------------------ bounds --------------------------------- *)

\* longest message history the iterator yields
MaxHist == 3

\* largest --limit
MaxLimit == 3

\* number of append_to_excel calls in SpecMerge
MaxCalls == 3

(* --------------------------- small helpers ----------------------------- *)

Range(s) == {s[k] : k \in DOMAIN s}

Min(a, b) == IF a <= b THEN a ELSE b

Take(s, n) == SubSeq(s, 1, Min(n, Len(s)))

\* [f(x) for x in s]
RECURSIVE MapIds(_)
MapIds(s) == IF s = <<>> THEN <<>> ELSE <<s[1].id>> \o MapIds(Tail(s))

(* ----------------------- messages and the group ------------------------ *)

\* message.date of the message with the given id (later ids are later)
DateOf(id) ==
    [year |-> 2024, month |-> 3, day |-> id, hour |-> 9, minute |-> 5, second |-> 10 * id]

Pad2(n) == IF n < 10 THEN "0" \o ToString(n) ELSE ToString(n)

\* message.date.strftime("%Y-%m-%d %H:%M:%S")
strftime(d) ==
    ToString(d.year) \o "-" \o Pad2(d.month) \o "-" \o Pad2(d.day) \o " "
        \o Pad2(d.hour) \o ":" \o Pad2(d.minute) \o ":" \o Pad2(d.second)

\* what client.iter_messages yields for a history of n messages with the
\* given photo flags: most recent (highest id) first
HistoryOf(flags) ==
    [k \in 1..Len(flags) |-> [id |-> Len(flags) - k + 1, photo |-> flags[k]]]

Histories ==
    {HistoryOf(f) : f \in UNION {[1..n -> BOOLEAN] : n \in 0..MaxHist}}

\* group entities: no username attribute, an empty one, a public one
Entities ==
    { [has_username |-> FALSE, username |-> ""],
      [has_username |-> TRUE, username |-> ""],
      [has_username |-> TRUE, username |-> "grp"] }

NoEntity == [has_username |-> FALSE, username |-> ""]

\* lines 199-202
message_link(group_entity, id) ==
    IF group_entity.has_username /\ group_entity.username # ""
    THEN "https://t.me/" \o group_entity.username \o "/" \o ToString(id)
    ELSE ""

(* ------------------------------- rows ---------------------------------- *)

Columns == <<"Message ID", "Date", "Image Link", "Extracted Text">>

\* the dict appended at lines 204-211
Row(id, date, link, text) ==
    ("Message ID" :> id) @@ ("Date" :> date) @@ ("Image Link" :> link)
        @@ ("Extracted Text" :> text)

(* --------------------------- OCR (perform_ocr) ------------------------- *)

\* " ".join(result)
RECURSIVE Join(_)
Join(result) ==
    IF result = <<>> THEN ""
    ELSE IF Len(result) = 1 THEN result[1]
    ELSE result[1] \o " " \o Join(Tail(result))

\* what can happen inside perform_ocr for one image: Image.open/convert/save
\* raises, reader.readtext raises, or readtext returns its paragraphs
OcrOutcomes ==
    { [kind |-> "decode_error", frags |-> <<>>],
      [kind |-> "engine_error", frags |-> <<>>],
      [kind |-> "ok", frags |-> <<>>],
      [kind |-> "ok", frags |-> <<"NA">>],
      [kind |-> "ok", frags |-> <<"a", "b">>] }

OcrFailed(o) == o.kind # "ok"

\* perform_ocr with its try/except left out
perform_ocr_propagates(o) ==
    [raised |-> OcrFailed(o), text |-> IF OcrFailed(o) THEN "" ELSE Join(o.frags)]

\* perform_ocr: every Exception is caught and turned into ""
perform_ocr(o) ==
    [raised |-> FALSE, text |-> IF OcrFailed(o) THEN "" ELSE Join(o.frags)]

(* ------------------- the XLSX dataset (pandas/openpyxl) ---------------- *)

\* a cell without a value
BLANK == "<blank>"

\* pandas' missing value
NaN == "<NaN>"

\* the column pandas keeps as integers; the others hold strings
NumericColumns == {"Message ID"}

\* strings read_excel turns into NaN by default (keep_default_na=True)
DefaultNA ==
    {"", "#N/A", "#N/A N/A", "#NA", "-1.#IND", "-1.#QNAN", "-NaN", "-nan",
     "1.#IND", "1.#QNAN", "<NA>", "N/A", "NA", "NULL", "NaN", "None", "n/a",
     "nan", "null"}

Absent == [st |-> "absent", columns |-> <<>>, rows |-> <<>>]

Damaged == [st |-> "damaged", columns |-> <<>>, rows |-> <<>>]

\* pd.DataFrame(data): the columns are the keys of the dicts
DataFrame(data) ==
    IF data = <<>> THEN [columns |-> <<>>, rows |-> <<>>]
    ELSE [columns |-> Columns, rows |-> data]

\* the cell to_excel writes for a value: "" and NaN leave the cell empty
CellOut(col, v) ==
    IF col \in NumericColumns THEN v
    ELSE IF v = "" \/ v = NaN THEN BLANK ELSE v

\* the value read_excel gives for a cell
CellIn(col, c) ==
    IF col \in NumericColumns THEN c
    ELSE IF c = BLANK \/ c \in DefaultNA THEN NaN ELSE c

\* df.to_excel(path, index=False), completed
to_excel(df) ==
    [st |-> "table", columns |-> df.columns,
     rows |-> [k \in 1..Len(df.rows) |->
                 [c \in Range(df.columns) |-> CellOut(c, df.rows[k][c])]]]

\* pd.read_excel(path) of a readable workbook
read_excel(f) ==
    [columns |-> f.columns,
     rows |-> [k \in 1..Len(f.rows) |->
                 [c \in Range(f.columns) |-> CellIn(c, f.rows[k][c])]]]

Reindex(row, cols) ==
    [c \in Range(cols) |-> IF c \in DOMAIN row THEN row[c] ELSE NaN]

\* pd.concat([a, b], ignore_index=True)
concat(a, b) ==
    LET cols == a.columns \o SelectSeq(b.columns, LAMBDA c : c \notin Range(a.columns))
    IN  [columns |-> cols,
         rows |-> [k \in 1..Len(a.rows) |-> Reindex(a.rows[k], cols)]
                    \o [k \in 1..Len(b.rows) |-> Reindex(b.rows[k], cols)]]

\* what the file system and the workbook writer can do to one call:
\*   ok                 every read and write completes
\*   read_error         read_excel raises
\*   write_denied       to_excel raises before the file is opened for writing
\*   write_interrupted  to_excel raises after the file was truncated
IoOutcomes == {"ok", "read_error", "write_denied", "write_interrupted"}

\* the outcomes that can happen for a given file: a damaged or unreadable
\* file is only read when it exists
IoOutcomesFor(f) ==
    IF f.st = "absent" THEN IoOutcomes \ {"read_error"}
    ELSE IF f.st = "damaged" THEN {"read_error"}
    ELSE IoOutcomes

\* the write at line 129 or 133
WriteResult(f, df, io, reads) ==
    IF io = "ok"
    THEN [file |-> to_excel(df), reads |-> reads, writes |-> 1, fault |-> "none"]
    ELSE IF io = "write_denied"
    THEN [file |-> f, reads |-> reads, writes |-> 0, fault |-> io]
    ELSE [file |-> Damaged, reads |-> reads, writes |-> 1, fault |-> io]

\* append_to_excel opening the file for writing before it reads it
append_to_excel_truncates_first(f, data, io) ==
    IF f.st = "absent"
    THEN WriteResult(f, DataFrame(data), io, 0)
    ELSE IF io = "read_error"
    THEN [file |-> Damaged, reads |-> 1, writes |-> 1, fault |-> io]
    ELSE WriteResult(f, concat(read_excel(f), DataFrame(data)), io, 1)

\* append_to_excel(output_path, data) on the file f
append_to_excel(f, data, io) ==
    IF f.st = "absent"
    THEN WriteResult(f, DataFrame(data), io, 0)
    ELSE IF io = "read_error"
    THEN [file |-> f, reads |-> 1, writes |-> 0, fault |-> io]
    ELSE WriteResult(f, concat(read_excel(f), DataFrame(data)), io, 1)

(* ------------------------------- state --------------------------------- *)

VARIABLES
    file,            \* the dataset at args.output
    file0,           \* the dataset as it was when the run started
    history,         \* what iter_messages yields, most recent first
    limit,           \* args.limit
    pc,              \* where main() is
    client,          \* "created", "started", "disconnected"
    group_entity,    \* result of client.get_entity
    pos,             \* next message the iterator yields
    images,          \* fetch_images' list
    reader,          \* the easyocr.Reader in use (0: none)
    readers,         \* number of easyocr.Reader objects constructed
    i,               \* index into images of the message being processed
    data_to_append,  \* rows built so far
    cancelPending,   \* the main task was cancelled, not yet delivered
    interruptedAt,   \* where the run was when SIGINT arrived ("none")
    exit,            \* "running", "0", "1", "traceback", "interrupted"
    exitAt,          \* where the run ended
    stdout,          \* what the run printed
    fetchFault,      \* "none", "flood", "error"
    faultSeconds,    \* FloodWaitError.seconds of the fault raised
    fetched,         \* fetch_images returned
    scans,           \* number of iter_messages scans started
    trace,           \* per finished message: id, download and OCR outcome
    ocrCalls,        \* the reader each readtext call was made on
    runReads,        \* read_excel calls of the run
    runWrites,       \* to_excel calls of the run that opened the file
    ioFault,         \* the fault append_to_excel raised ("none")
    mergeCalled,     \* append_to_excel was called
    merged,          \* SpecMerge: the rows of all completed calls
    calls,           \* SpecMerge: number of calls made
    mergeFailed      \* SpecMerge: some call raised

inputVars == <<history, limit, file0>>

fetchVars == <<pos, images, fetchFault, faultSeconds, fetched, scans>>

readerVars == <<reader, readers>>

loopVars == <<i, data_to_append, trace, ocrCalls>>

ioVars == <<file, runReads, runWrites, ioFault, mergeCalled>>

intVars == <<cancelPending, interruptedAt>>

harnessVars == <<merged, calls, mergeFailed>>

vars ==
    <<file, file0, history, limit, pc, client, group_entity, pos, images,
      reader, readers, i, data_to_append, cancelPending, interruptedAt, exit,
      exitAt, stdout, fetchFault, faultSeconds, fetched, scans, trace,
      ocrCalls, runReads, runWrites, ioFault, mergeCalled, merged, calls,
      mergeFailed>>

\* FloodWaitError.seconds
FloodSeconds == {7, 3600}

\* a dataset an earlier run left behind
EarlierDataset ==
    to_excel(DataFrame(<<Row(2, strftime(DateOf(2)), "", "old")>>))

\* the datasets a run can find at args.output
InitialDatasets == {Absent, EarlierDataset, Damaged}

Init ==
    /\ file \in InitialDatasets
    /\ file0 = file
    /\ history \in Histories
    /\ limit \in 1..MaxLimit
    /\ pc = "start"
    /\ client = "created"
    /\ group_entity = NoEntity
    /\ pos = 1
    /\ images = <<>>
    /\ reader = 0
    /\ readers = 0
    /\ i = 0
    /\ data_to_append = <<>>
    /\ cancelPending = FALSE
    /\ interruptedAt = "none"
    /\ exit = "running"
    /\ exitAt = "none"
    /\ stdout = <<>>
    /\ fetchFault = "none"
    /\ faultSeconds = 0
    /\ fetched = FALSE
    /\ scans = 0
    /\ trace = <<>>
    /\ ocrCalls = <<>>
    /\ runReads = 0
    /\ runWrites = 0
    /\ ioFault = "none"
    /\ mergeCalled = FALSE
    /\ merged = <<>>
    /\ calls = 0
    /\ mergeFailed = FALSE

(* ------------------------------ main() --------------------------------- *)

\* sys.exit(code), an uncaught exception, or the cancellation of the task
Exit(code, at) ==
    /\ pc' = "exited"
    /\ exit' = code
    /\ exitAt' = at

Say(line) == stdout' = Append(stdout, line)

\* lines 149-156: await client.start()
StartClient ==
    /\ pc = "start"
    /\ \/ /\ client' = "started"
          /\ pc' = "get_entity"
          /\ UNCHANGED <<exit, exitAt, stdout>>
       \/ /\ \E line \in {"Invalid API ID or API Hash.",
                          "Failed to start Telegram client: <e>"} : Say(line)
          /\ Exit("1", "start")
          /\ UNCHANGED client
    /\ UNCHANGED <<inputVars, fetchVars, readerVars, loopVars, ioVars, intVars,
                   harnessVars, group_entity>>

\* lines 158-175: await client.get_entity(args.group), then fetch_images is
\* entered and the scan of the history starts
GetEntity ==
    /\ pc = "get_entity"
    /\ \/ /\ \E e \in Entities : group_entity' = e
          /\ Say("Connected to group: <title>")
          /\ pc' = "fetch"
          /\ scans' = scans + 1
          /\ UNCHANGED <<client, exit, exitAt>>
       \/ /\ \E line \in {"The group '<group>' does not exist.",
                          "The group '<group>' is private or you don't have access.",
                          "Failed to get the group entity: <e>"} : Say(line)
          /\ client' = "disconnected"
          /\ Exit("1", "get_entity")
          /\ UNCHANGED <<group_entity, scans>>
    /\ UNCHANGED <<inputVars, pos, images, fetchFault, faultSeconds, fetched,
                   readerVars, loopVars, ioVars, intVars, harnessVars>>

\* line 87 with the list off by one
ShouldBreakOffByOne(imgs, lim) == Len(imgs) > lim

\* line 87: if len(images) >= limit: break
ShouldBreak(imgs, lim) == Len(imgs) >= lim

\* fetch_images returns imgs (line 95) and main goes on at lines 177-184
FetchReturns(imgs) ==
    /\ fetched' = TRUE
    /\ images' = imgs
    /\ IF imgs = <<>>
       THEN /\ Say("No images found in the specified group.")
            /\ client' = "disconnected"
            /\ Exit("0", "no_images")
       ELSE /\ Say("Fetched " \o ToString(Len(imgs)) \o " image(s) from the group.")
            /\ pc' = "reader"
            /\ UNCHANGED <<client, exit, exitAt>>

\* lines 84-88: the iterator yields the next message of the history
FetchYield ==
    /\ pc = "fetch"
    /\ pos <= Len(history)
    /\ pos' = pos + 1
    /\ LET message == history[pos]
           imgs == IF message.photo THEN Append(images, message) ELSE images
       IN  IF message.photo /\ ShouldBreak(imgs, limit)
           THEN FetchReturns(imgs)
           ELSE /\ images' = imgs
                /\ UNCHANGED <<pc, client, exit, exitAt, stdout, fetched>>
    /\ UNCHANGED <<inputVars, fetchFault, faultSeconds, scans, readerVars,
                   loopVars, ioVars, intVars, harnessVars, group_entity>>

\* line 84: the history is exhausted and the loop ends
FetchExhausted ==
    /\ pc = "fetch"
    /\ pos > Len(history)
    /\ FetchReturns(images)
    /\ UNCHANGED <<inputVars, pos, fetchFault, faultSeconds, scans, readerVars,
                   loopVars, ioVars, intVars, harnessVars, group_entity>>

\* lines 89-91 swallowing the fault and returning what was collected
FetchFloodWaitReturnsPartial ==
    /\ pc = "fetch"
    /\ \E s \in FloodSeconds :
          /\ faultSeconds' = s
          /\ fetchFault' = "flood"
    /\ fetched' = TRUE
    /\ IF images = <<>>
       THEN /\ Say("No images found in the specified group.")
            /\ client' = "disconnected"
            /\ Exit("0", "no_images")
       ELSE /\ Say("Fetched " \o ToString(Len(images)) \o " image(s) from the group.")
            /\ pc' = "reader"
            /\ UNCHANGED <<client, exit, exitAt>>
    /\ UNCHANGED <<inputVars, pos, images, scans, readerVars, loopVars, ioVars,
                   intVars, harnessVars, group_entity>>

\* lines 89-91: the scan raises FloodWaitError at any request of the scan
FetchFloodWait ==
    /\ pc = "fetch"
    /\ \E s \in FloodSeconds :
          /\ faultSeconds' = s
          /\ Say("Flood wait error. Need to wait for " \o ToString(s) \o " seconds.")
    /\ fetchFault' = "flood"
    /\ Exit("1", "fetch")
    /\ UNCHANGED <<inputVars, pos, images, fetched, scans, readerVars, loopVars,
                   ioVars, intVars, harnessVars, group_entity, client>>

\* lines 92-94: the scan raises any other Exception
FetchError ==
    /\ pc = "fetch"
    /\ fetchFault' = "error"
    /\ Say("An error occurred while fetching images: <e>")
    /\ Exit("1", "fetch")
    /\ UNCHANGED <<inputVars, pos, images, faultSeconds, fetched, scans,
                   readerVars, loopVars, ioVars, intVars, harnessVars,
                   group_entity, client>>

\* line 184: easyocr.Reader(args.languages, gpu=args.gpu), then line 186
ConstructReader ==
    /\ pc = "reader"
    /\ readers' = readers + 1
    /\ reader' = readers + 1
    /\ data_to_append' = <<>>
    /\ i' = 1
    /\ Say("Started OCR processing.")
    /\ pc' = "download"
    /\ UNCHANGED <<inputVars, fetchVars, trace, ocrCalls, ioVars, intVars,
                   harnessVars, group_entity, client, exit, exitAt>>

\* the for loop at line 189 goes to its next message, or ends
Continue ==
    /\ i' = i + 1
    /\ pc' = IF i + 1 > Len(images) THEN "merge" ELSE "download"
    /\ UNCHANGED <<exit, exitAt>>

\* what await message.download_media(bytes) can do
DownloadOutcomes == {"bytes", "empty", "raise"}

Logged(id, dl, ocr) == trace' = Append(trace, [id |-> id, dl |-> dl, ocr |-> ocr])

\* lines 213-215 left out: an exception of the download leaves main()
DownloadFaultAborts ==
    /\ pc = "download"
    /\ IF cancelPending
       THEN /\ Exit("interrupted", "download")
            /\ UNCHANGED <<i, trace, stdout>>
       ELSE \E dl \in DownloadOutcomes :
              CASE dl = "bytes" ->
                     /\ pc' = "ocr"
                     /\ UNCHANGED <<i, trace, stdout, exit, exitAt>>
                [] dl = "empty" ->
                     /\ Say("Failed to download image from message ID "
                                \o ToString(images[i].id))
                     /\ Logged(images[i].id, dl, "none")
                     /\ Continue
                [] dl = "raise" ->
                     /\ Logged(images[i].id, dl, "none")
                     /\ Exit("traceback", "download")
                     /\ UNCHANGED <<i, stdout>>
    /\ UNCHANGED <<inputVars, fetchVars, readerVars, data_to_append, ocrCalls,
                   ioVars, intVars, harnessVars, group_entity, client>>

\* the cancellation ends the loop and the rows built so far are merged
DownloadBreaksOnCancel ==
    /\ pc = "download"
    /\ IF cancelPending
       THEN /\ pc' = "merge"
            /\ UNCHANGED <<i, trace, stdout, exit, exitAt>>
       ELSE \E dl \in DownloadOutcomes :
              CASE dl = "bytes" ->
                     /\ pc' = "ocr"
                     /\ UNCHANGED <<i, trace, stdout, exit, exitAt>>
                [] dl = "empty" ->
                     /\ Say("Failed to download image from message ID "
                                \o ToString(images[i].id))
                     /\ Logged(images[i].id, dl, "none")
                     /\ Continue
                [] dl = "raise" ->
                     /\ Say("Error processing message ID "
                                \o ToString(images[i].id) \o ": <e>")
                     /\ Logged(images[i].id, dl, "none")
                     /\ Continue
    /\ UNCHANGED <<inputVars, fetchVars, readerVars, data_to_append, ocrCalls,
                   ioVars, intVars, harnessVars, group_entity, client>>

\* lines 190-195 and 213-215: await message.download_media(bytes).  A pending
\* cancellation is delivered at this await as CancelledError, which is no
\* Exception and leaves main()
Download ==
    /\ pc = "download"
    /\ IF cancelPending
       THEN /\ Exit("interrupted", "download")
            /\ UNCHANGED <<i, trace, stdout>>
       ELSE \E dl \in DownloadOutcomes :
              CASE dl = "bytes" ->
                     /\ pc' = "ocr"
                     /\ UNCHANGED <<i, trace, stdout, exit, exitAt>>
                [] dl = "empty" ->
                     /\ Say("Failed to download image from message ID "
                                \o ToString(images[i].id))
                     /\ Logged(images[i].id, dl, "none")
                     /\ Continue
                [] dl = "raise" ->
                     /\ Say("Error processing message ID "
                                \o ToString(images[i].id) \o ": <e>")
                     /\ Logged(images[i].id, dl, "none")
                     /\ Continue
    /\ UNCHANGED <<inputVars, fetchVars, readerVars, data_to_append, ocrCalls,
                   ioVars, intVars, harnessVars, group_entity, client>>

\* the rest of one iteration, given the reader the recognition runs on
ProcessWith(rd) ==
    /\ pc = "ocr"
    /\ \E o \in OcrOutcomes :
          LET message == images[i]
              r == perform_ocr(o)
          IN  /\ ocrCalls' = IF o.kind = "decode_error" THEN ocrCalls
                             ELSE Append(ocrCalls, rd)
              /\ Logged(message.id, "bytes", o.kind)
              /\ IF r.raised
                 THEN /\ Say("Error processing message ID "
                                 \o ToString(message.id) \o ": <e>")
                      /\ UNCHANGED data_to_append
                 ELSE /\ data_to_append' =
                            Append(data_to_append,
                                   Row(message.id, strftime(DateOf(message.id)),
                                       message_link(group_entity, message.id),
                                       r.text))
                      /\ UNCHANGED stdout
    /\ Continue
    /\ UNCHANGED <<inputVars, fetchVars, ioVars, intVars, harnessVars,
                   group_entity, client>>

\* a reader constructed inside the loop, for every image
ProcessWithNewReader ==
    /\ ProcessWith(readers + 1)
    /\ readers' = readers + 1
    /\ reader' = readers + 1

\* lines 197-211 and 213-215: perform_ocr on the reader of line 184, the link,
\* the row
Process ==
    /\ ProcessWith(reader)
    /\ UNCHANGED readerVars

\* line 218 without the test
ShouldMergeAlways(data) == TRUE

\* line 218: if data_to_append:
ShouldMerge(data) == data # <<>>

\* lines 217-222: the merge step.  An exception of append_to_excel is caught
\* nowhere and leaves main()
MergeStep ==
    /\ pc = "merge"
    /\ IF ShouldMerge(data_to_append)
       THEN \E io \in IoOutcomesFor(file) :
              LET r == append_to_excel(file, data_to_append, io)
              IN  /\ file' = r.file
                  /\ runReads' = runReads + r.reads
                  /\ runWrites' = runWrites + r.writes
                  /\ ioFault' = r.fault
                  /\ mergeCalled' = TRUE
                  /\ IF r.fault = "none"
                     THEN /\ Say("Data successfully appended to <output>")
                          /\ pc' = "disconnect"
                          /\ UNCHANGED <<exit, exitAt>>
                     ELSE /\ Exit("traceback", "merge")
                          /\ UNCHANGED stdout
       ELSE /\ Say("No data to append to Excel.")
            /\ pc' = "disconnect"
            /\ UNCHANGED <<ioVars, exit, exitAt>>
    /\ UNCHANGED <<inputVars, fetchVars, readerVars, loopVars, intVars,
                   harnessVars, group_entity, client>>

\* line 225: await client.disconnect(); a pending cancellation is delivered
\* here instead
Disconnect ==
    /\ pc = "disconnect"
    /\ IF cancelPending
       THEN /\ Exit("interrupted", "disconnect")
            /\ UNCHANGED client
       ELSE /\ client' = "disconnected"
            /\ Exit("0", "end")
    /\ UNCHANGED <<inputVars, fetchVars, readerVars, loopVars, ioVars, intVars,
                   harnessVars, group_entity, stdout>>

(* ------------------- SIGINT under asyncio.run (228-232) ---------------- *)

\* where main() is suspended at an await
AwaitPoints == {"start", "get_entity", "fetch", "download", "disconnect"}

\* where main() runs synchronous code: the Reader constructor, perform_ocr
\* and the row, the code between the loop and append_to_excel
SyncPoints == {"reader", "ocr", "merge"}

\* the points of a run before the merge step has started
BeforePersistence == {"start", "get_entity", "fetch", "reader", "download", "ocr", "merge"}

Interrupted(at) ==
    /\ interruptedAt' = at
    /\ Say("Script interrupted by user. Exiting...")
    /\ Exit("interrupted", at)
    /\ UNCHANGED cancelPending

\* SIGINT while main() waits: the task is cancelled at its await and
\* asyncio.run raises KeyboardInterrupt
InterruptWhileAwaiting ==
    /\ pc \in AwaitPoints
    /\ interruptedAt = "none"
    /\ Interrupted(pc)
    /\ UNCHANGED <<inputVars, fetchVars, readerVars, loopVars, ioVars,
                   harnessVars, group_entity, client>>

\* SIGINT while main() runs synchronous code, raised there as
\* KeyboardInterrupt (the default handler, Python before 3.11)
InterruptRaisedInSync ==
    /\ pc \in SyncPoints
    /\ interruptedAt = "none"
    /\ Interrupted(pc)
    /\ UNCHANGED <<inputVars, fetchVars, readerVars, loopVars, ioVars,
                   harnessVars, group_entity, client>>

\* SIGINT while main() runs synchronous code, turned by asyncio.run's handler
\* into a cancellation of the main task, delivered at its next await
\* (Python 3.11 and later)
InterruptDeferred ==
    /\ pc \in SyncPoints
    /\ interruptedAt = "none"
    /\ interruptedAt' = pc
    /\ cancelPending' = TRUE
    /\ UNCHANGED <<inputVars, fetchVars, readerVars, loopVars, ioVars,
                   harnessVars, group_entity, client, pc, exit, exitAt, stdout>>

Next ==
    \/ StartClient
    \/ GetEntity
    \/ FetchYield
    \/ FetchExhausted
    \/ FetchFloodWait
    \/ FetchError
    \/ ConstructReader
    \/ Download
    \/ Process
    \/ MergeStep
    \/ Disconnect
    \/ InterruptWhileAwaiting
    \/ InterruptRaisedInSync
    \/ InterruptDeferred

Spec == Init /\ [][Next]_vars

(* --------------------- append_to_excel on one path --------------------- *)

\* the texts and ids of the rows the calls are made with
CallRows ==
    {Row(id, strftime(DateOf(id)), "", text) : id \in 1..2, text \in {"a b", "NA"}}

\* the non-empty lists of rows a call is made with
CallData == {<<r>> : r \in CallRows} \cup {<<r, q>> : r \in CallRows, q \in CallRows}

InitMerge ==
    /\ file = Absent
    /\ file0 = Absent
    /\ history = <<>>
    /\ limit = 1
    /\ pc = "merge"
    /\ client = "started"
    /\ group_entity = NoEntity
    /\ pos = 1
    /\ images = <<>>
    /\ reader = 0
    /\ readers = 0
    /\ i = 0
    /\ data_to_append = <<>>
    /\ cancelPending = FALSE
    /\ interruptedAt = "none"
    /\ exit = "running"
    /\ exitAt = "none"
    /\ stdout = <<>>
    /\ fetchFault = "none"
    /\ faultSeconds = 0
    /\ fetched = FALSE
    /\ scans = 0
    /\ trace = <<>>
    /\ ocrCalls = <<>>
    /\ runReads = 0
    /\ runWrites = 0
    /\ ioFault = "none"
    /\ mergeCalled = FALSE
    /\ merged = <<>>
    /\ calls = 0
    /\ mergeFailed = FALSE

\* one call append_to_excel(path, data) with a non-empty data
MergeCall ==
    /\ calls < MaxCalls
    /\ \E data \in CallData, io \in IoOutcomesFor(file) :
          LET r == append_to_excel(file, data, io)
          IN  /\ file' = r.file
              /\ ioFault' = r.fault
              /\ mergeFailed' = (mergeFailed \/ r.fault # "none")
              /\ merged' = IF r.fault = "none" THEN merged \o data ELSE merged
    /\ calls' = calls + 1
    /\ mergeCalled' = TRUE
    /\ UNCHANGED <<inputVars, fetchVars, readerVars, loopVars, intVars,
                   runReads, runWrites, group_entity, client, pc, exit, exitAt,
                   stdout>>

NextMerge == MergeCall

SpecMerge == InitMerge /\ [][NextMerge]_vars

(* ------------------------------ properties ----------------------------- *)

\* the image-bearing messages of a history, most recent first
Qualifying(h) == SelectSeq(h, LAMBDA m : m.photo)

RowIds(rows) == [k \in 1..Len(rows) |-> rows[k]["Message ID"]]

\* ids of the finished messages whose download gave bytes
DownloadedIds == MapIds(SelectSeq(trace, LAMBDA e : e.dl = "bytes"))

\* the merge step (lines 217-222) was executed
MergeStepDone ==
    \/ pc = "disconnect"
    \/ exitAt \in {"disconnect", "end"}
    \/ exitAt = "merge" /\ exit = "traceback"

\* the loop of line 189 has ended
LoopDone == pc \in {"merge", "disconnect"} \/ exitAt \in {"merge", "disconnect", "end"}

\* C1: once fetch_images has returned, its result is the min(limit, K) most
\* recent image-bearing messages of the history, most recent first, K being
\* their number in the history; and the scan ends the run with exit code 1
\* only on a fault of the source, never because the history ran out.
C1_FetchReturnsMostRecent ==
    /\ fetched =>
         /\ images = Take(Qualifying(history), limit)
         /\ Len(images) = Min(limit, Len(Qualifying(history)))
         /\ \A a, b \in DOMAIN images : a < b => images[a].id > images[b].id
    /\ (exitAt = "fetch" /\ exit = "1") => fetchFault # "none"
    /\ (pc = "fetch" /\ pos > Len(history)) => Len(images) < limit

C1_Witness ==
    /\ fetched
    /\ images # <<>>
    /\ Len(images) < limit
    /\ Len(images) < Len(history)

\* C2: as long as no call has raised, the dataset is the one a single write of
\* the concatenation of all rows of the calls gives (absent before the first).
C2_MergeAccumulates ==
    ~mergeFailed =>
        file = IF merged = <<>> THEN Absent ELSE to_excel(DataFrame(merged))

C4_PerItemIsolation ==
    /\ MapIds(trace) = MapIds(Take(images, Len(trace)))
    /\ RowIds(data_to_append) = DownloadedIds
    /\ LoopDone => Len(trace) = Len(images)
    /\ exit = "traceback" => exitAt = "merge"

C4_Witness ==
    /\ pc = "merge"
    /\ \E k, j \in DOMAIN trace :
          /\ k < j
          /\ trace[k].dl = "raise"
          /\ trace[j].dl = "bytes"
    /\ \E k \in DOMAIN trace : trace[k].dl = "empty"

\* C5: every finished message whose bytes were downloaded and whose decoding
\* or recognition failed has its row in the batch: its id, its formatted date,
\* its link, and the empty text.
C5_OcrFailureStillEmitsRow ==
    \A k \in DOMAIN trace :
        (trace[k].dl = "bytes" /\ trace[k].ocr \in {"decode_error", "engine_error"}) =>
            \E j \in DOMAIN data_to_append :
                data_to_append[j] =
                    Row(trace[k].id, strftime(DateOf(trace[k].id)),
                        message_link(group_entity, trace[k].id), "")

C5_Witness ==
    /\ \E k \in DOMAIN trace : trace[k].ocr = "engine_error"
    /\ \E k \in DOMAIN trace : trace[k].ocr = "decode_error"
    /\ group_entity.username = "grp"

\* C6: once the scan has raised FloodWaitError the run is over with exit code
\* 1, the last line printed gives the wait, no message was processed, no
\* reader was built, the dataset was neither read nor written, and the
\* history was scanned once.
C6_FloodWaitAbortsRun ==
    fetchFault = "flood" =>
        /\ pc = "exited"
        /\ exit = "1"
        /\ exitAt = "fetch"
        /\ stdout # <<>>
        /\ stdout[Len(stdout)] =
              "Flood wait error. Need to wait for " \o ToString(faultSeconds) \o " seconds."
        /\ faultSeconds \in FloodSeconds
        /\ i = 0
        /\ trace = <<>>
        /\ data_to_append = <<>>
        /\ readers = 0
        /\ ocrCalls = <<>>
        /\ ~mergeCalled
        /\ runReads = 0
        /\ runWrites = 0
        /\ file = file0
        /\ scans = 1

C6_Witness ==
    /\ fetchFault = "flood"
    /\ images # <<>>
    /\ Len(images) < limit
    /\ file0 = EarlierDataset

\* C7 as stated: after an interrupt that arrived before the merge step
\* started, the dataset is as it was before the run.
C7_InterruptLeavesDatasetUntouched ==
    interruptedAt \in BeforePersistence => file = file0

\* C7 amended: after an interrupt that arrived before the merge step started,
\* either the dataset was not touched, or append_to_excel was called with the
\* complete batch, every fetched message having been handled.
C7_InterruptAllOrNothing ==
    interruptedAt \in BeforePersistence =>
        \/ /\ ~mergeCalled
           /\ runReads = 0
           /\ runWrites = 0
           /\ file = file0
        \/ /\ mergeCalled
           /\ Len(trace) = Len(images)
           /\ RowIds(data_to_append) = DownloadedIds

C7_Witness ==
    /\ interruptedAt = "ocr"
    /\ exit = "interrupted"
    /\ exitAt = "disconnect"
    /\ runWrites = 1
    /\ file # file0
    /\ Len(images) > 1

\* C8 as stated: after a failed merge the dataset holds what it held before
\* the run.
C8_MergeFailureLeavesDataset ==
    ioFault # "none" => (exit = "traceback" /\ file = file0)

\* C8 amended: a failed merge ends the run with the exception; when the
\* existing dataset could not be read, or the file could not be opened for
\* writing, the dataset holds what it held before the run.
C8_MergeFailureAbortsRun ==
    /\ ioFault # "none" =>
         /\ pc = "exited"
         /\ exit = "traceback"
         /\ exitAt = "merge"
    /\ ioFault \in {"read_error", "write_denied"} =>
         /\ file = file0
         /\ runWrites = 0

C8_Witness ==
    /\ ioFault = "read_error"
    /\ file0 = EarlierDataset
    /\ Len(data_to_append) > 1

\* C9: at most one reader is constructed in a run, only after fetch_images
\* has returned without a fault, and before any message is processed; every
\* readtext call is made on it; a run whose fetch faulted constructs none and
\* makes no call.
C9_ReaderOncePerRun ==
    /\ readers <= 1
    /\ readers = 1 => (fetched /\ fetchFault = "none" /\ reader = 1)
    /\ (pc \in {"download", "ocr"} \/ trace # <<>>) => readers = 1
    /\ \A k \in DOMAIN ocrCalls : ocrCalls[k] = 1
    /\ fetchFault # "none" => (readers = 0 /\ ocrCalls = <<>>)

C9_Witness ==
    /\ Len(ocrCalls) >= 2
    /\ readers = 1

\* C10: a run that ends after the client was started, and was not
\* interrupted, has disconnected the client.
C10_ClientDisconnectedOnExit ==
    (pc = "exited" /\ client # "created" /\ interruptedAt = "none") =>
        client = "disconnected"

====
